---- MODULE Spec2Model ----
(***************************************************************************)
(* Model of telegram_music_recognizer_bot.py: the message handler          *)
(* handle_msg with its helpers convert_to_wav and recognize_with_shazam.   *)
(*                                                                         *)
(* The application is built with ApplicationBuilder().token(..).build()    *)
(* and one blocking MessageHandler, so one handle_msg call is in flight at *)
(* a time; the requests of a run follow one another and share the local    *)
(* file system.  Every await of the handler is one step of the model.      *)
(***************************************************************************)
EXTENDS Naturals, Sequences, FiniteSets, TLC

VARIABLES
    pc,             \* position of the handler
    msg,            \* update.message of the request in flight
    file_obj,       \* kind of the attachment whose get_file() answered
    file_name_hint, \* file name hint, a relative or absolute path
    fetched,        \* attachment kinds get_file() was called on
    tmpdir,         \* directory of the TemporaryDirectory() of this request
    in_path,        \* tmpdir_path / file_name_hint
    out_wav,        \* tmpdir_path / "converted.wav"
    dirs,           \* temporary directories that exist on disk
    files,          \* files that exist on disk (resolved paths)
    exit_status,    \* how the ffmpeg process ended
    ok,             \* what convert_to_wav returned
    result,         \* what recognize_with_shazam returned
    pending,        \* text handed to the reply_text call about to be made
    replies,        \* texts of the reply_text calls made, in order
    stages,         \* stages this request has entered
    failed          \* the call of this request that raised, if any

vars == <<pc, msg, file_obj, file_name_hint, fetched, tmpdir, in_path, out_wav,
          dirs, files, exit_status, ok, result, pending, replies, stages, failed>>

(***************************************************************************)
(* Bounds of the model.                                                    *)
(***************************************************************************)
\* longest "sections" list of a recognised track
MaxSections == 2
\* longest "providers" list of a hub
MaxProviders == 2

(***************************************************************************)
(* Python values as the handler sees them: None, str, list, dict.  A dict  *)
(* is its items in insertion order, each <<key, value>>.                   *)
(***************************************************************************)
None == [t |-> "none"]

Str(s) == [t |-> "str", s |-> s]

List(xs) == [t |-> "list", items |-> xs]

Dict(kv) == [t |-> "dict", kv |-> kv]

Unset == [t |-> "unset"]

\* bool(x)
Truthy(x) ==
    CASE x.t = "none" -> FALSE
      [] x.t = "str"  -> x.s # ""
      [] x.t = "list" -> Len(x.items) > 0
      [] x.t = "dict" -> Len(x.kv) > 0
      [] OTHER        -> FALSE

\* isinstance(x, dict); only a dict has the method get
IsDict(x) == x.t = "dict"

\* isinstance(x, list)
IsList(x) == x.t = "list"

\* d.get(k, default) of a dict d
Get(d, k, default) ==
    LET hits == {i \in 1..Len(d.kv) : d.kv[i][1] = k}
    IN  IF hits = {} THEN default
        ELSE d.kv[CHOOSE i \in hits : \A j \in hits : i <= j][2]

\* a or b
Or(a, b) == IF Truthy(a) THEN a ELSE b

\* str(x) inside an f-string
Render(x) ==
    CASE x.t = "str"  -> x.s
      [] x.t = "none" -> "None"
      [] OTHER        -> "<repr>"

(***************************************************************************)
(* Paths (pathlib.Path and the file system's resolution of them).  A path  *)
(* is its components; an absolute path starts with "/".                    *)
(***************************************************************************)
Root == <<"/">>

TempRoot == <<"/", "tmp">>

\* Path(a) / b : an absolute right operand replaces the left one
PathJoin(a, b) == IF Len(b) > 0 /\ b[1] = "/" THEN b ELSE a \o b

RECURSIVE Norm(_, _)
\* the file the operating system reaches through path p (".." steps up)
Norm(p, acc) ==
    IF p = <<>> THEN acc
    ELSE IF Head(p) = ".."
         THEN Norm(Tail(p), IF Len(acc) > 1 THEN SubSeq(acc, 1, Len(acc) - 1) ELSE acc)
         ELSE Norm(Tail(p), Append(acc, Head(p)))

Resolve(p) == Norm(p, <<>>)

Parent(p) == SubSeq(p, 1, Len(p) - 1)

\* file or directory p lies below directory d
Inside(p, d) ==
    /\ Len(p) > Len(d)
    /\ SubSeq(p, 1, Len(d)) = d

(***************************************************************************)
(* Reply texts.  The four fixed texts are told apart by kind; the reply    *)
(* for a matched track carries the rendered title, the rendered artist and *)
(* the link lines appended to it (the f-string of line 91).                *)
(***************************************************************************)
Text(kind) == [kind |-> kind, title |-> "", subtitle |-> "", more |-> <<>>]

UsagePrompt == Text("usage")

DownloadError == Text("download_error")

CannotConvert == Text("cannot_convert")

NoMatch == Text("no_match")

MatchReply(title, subtitle, more) ==
    [kind |-> "match", title |-> title, subtitle |-> subtitle, more |-> more]

NoReply == Text("none")

(***************************************************************************)
(* The formatting code of handle_msg, lines 72-94.  Each operator answers  *)
(* [raised, ...]: raised is TRUE when the Python code raises (a method get *)
(* of something that is no dict, an index into an empty list).             *)
(***************************************************************************)
Raised == [raised |-> TRUE, more |-> <<>>]

NoMore == [raised |-> FALSE, more |-> <<>>]

\* line 72: result.get("track") if isinstance(result, dict) else None
TrackOf(res) == IF IsDict(res) THEN Get(res, "track", None) ELSE None

\* line 86: p.get('actions', [{}])[0].get('uri', '') behind the link prefix
LinkOf(p) ==
    LET actions == Get(p, "actions", List(<<Dict(<<>>)>>))
    IN  IF ~IsList(actions) \/ Len(actions.items) = 0 THEN Raised
        ELSE LET first == actions.items[1]
             IN  IF ~IsDict(first) THEN Raised
                 ELSE [raised |-> FALSE,
                       more |-> <<Render(Get(first, "uri", Str("")))>>]

RECURSIVE ScanProviders(_, _)
\* lines 84-87: for p in providers, from the j-th on
ScanProviders(ps, j) ==
    IF j > Len(ps) THEN NoMore
    ELSE LET p == ps[j]
         IN  IF ~IsDict(p) THEN Raised
             ELSE IF Get(p, "type", None) = Str("youtube") THEN LinkOf(p)
             ELSE ScanProviders(ps, j + 1)

\* lines 81-87: the body of the loop over sections, for one section
ScanHub(sec) ==
    IF ~IsDict(sec) THEN Raised
    ELSE LET hub == Get(sec, "hub", None)
         IN  IF Truthy(hub) /\ IsDict(hub)
             THEN LET providers == Or(Get(hub, "providers", None), List(<<>>))
                  IN  IF IsList(providers) THEN ScanProviders(providers.items, 1)
                      ELSE Raised
             ELSE NoMore

RECURSIVE ScanSectionsLast(_, _)
\* the loop over sections without the break of line 89
ScanSectionsLast(secs, i) ==
    IF i > Len(secs) THEN NoMore
    ELSE LET r    == ScanHub(secs[i])
             rest == ScanSectionsLast(secs, i + 1)
         IN  IF r.raised THEN r
             ELSE IF rest.raised \/ rest.more # <<>> THEN rest
             ELSE r

RECURSIVE ScanSections(_, _)
\* lines 80-89: for sec in sections, from the i-th on
ScanSections(secs, i) ==
    IF i > Len(secs) THEN NoMore
    ELSE LET r == ScanHub(secs[i])
         IN  IF r.raised \/ r.more # <<>> THEN r
             ELSE ScanSections(secs, i + 1)

\* lines 72-94: the reply for a recognition result, or raised
FormatReply(res) ==
    LET track == TrackOf(res)
    IN  IF Truthy(track)
        THEN IF ~IsDict(track) THEN [raised |-> TRUE, reply |-> NoReply]
             ELSE LET title    == Or(Get(track, "title", None), Str("---"))
                      subtitle == Or(Get(track, "subtitle", None), Str("---"))
                      sections == Get(track, "sections", None)
                      scan     == IF IsList(sections) /\ Truthy(sections)
                                  THEN ScanSections(sections.items, 1)
                                  ELSE NoMore
                  IN  IF scan.raised THEN [raised |-> TRUE, reply |-> NoReply]
                      ELSE [raised |-> FALSE,
                            reply |-> MatchReply(Render(title), Render(subtitle),
                                                 scan.more)]
        ELSE [raised |-> FALSE, reply |-> NoMatch]

(***************************************************************************)
(* Inbound messages.  fields are the attachment fields that are set; the   *)
(* audio and the document attachment carry an optional file name (<<>> is  *)
(* None or the empty string), which the sender chooses.                    *)
(***************************************************************************)
Kinds == {"voice", "audio", "video", "document", "video_note"}

FileNames ==
    { <<>>, <<"song.mp3">>, <<"converted.wav">>, <<"..", "song.mp3">>,
      <<"sub", "song.mp3">>, <<"/", "tmp", "song.mp3">> }

\* update.message is None
NoMessage ==
    [has_message |-> FALSE, fields |-> {}, audio_name |-> <<>>, document_name |-> <<>>]

Messages ==
    {NoMessage} \cup
    UNION { { [has_message |-> TRUE, fields |-> f, audio_name |-> a, document_name |-> d] :
                a \in (IF "audio" \in f THEN FileNames ELSE {<<>>}),
                d \in (IF "document" \in f THEN FileNames ELSE {<<>>}) } :
            f \in SUBSET Kinds }

\* names mkdtemp can draw for a directory below the temporary root
TmpNames == {"tmpA", "tmpB"}

(***************************************************************************)
(* Lines 33-50: the if / elif chain that picks the attachment.             *)
(***************************************************************************)
\* the chain with the audio test ahead of the voice test
SelectedAudioFirst(m) ==
    IF "audio" \in m.fields THEN "audio"
    ELSE IF "voice" \in m.fields THEN "voice"
    ELSE IF "video" \in m.fields THEN "video"
    ELSE IF "document" \in m.fields THEN "document"
    ELSE IF "video_note" \in m.fields THEN "video_note"
    ELSE "none"

Selected(m) ==
    IF "voice" \in m.fields THEN "voice"
    ELSE IF "audio" \in m.fields THEN "audio"
    ELSE IF "video" \in m.fields THEN "video"
    ELSE IF "document" \in m.fields THEN "document"
    ELSE IF "video_note" \in m.fields THEN "video_note"
    ELSE "none"

\* lines 35, 38, 41, 44, 47: the file name hint of the picked attachment
HintOf(m, kind) ==
    CASE kind = "voice"      -> <<"voice_UID.ogg">>
      [] kind = "audio"      -> IF m.audio_name # <<>> THEN m.audio_name
                                ELSE <<"audio_UID">>
      [] kind = "video"      -> <<"video_UID.mp4">>
      [] kind = "document"   -> IF m.document_name # <<>> THEN m.document_name
                                ELSE <<"doc_UID">>
      [] kind = "video_note" -> <<"vnote_UID.mp4">>

(***************************************************************************)
(* State after construction: no request in flight, nothing on disk.        *)
(***************************************************************************)
Init ==
    /\ pc = "idle"
    /\ msg = NoMessage
    /\ dirs = {}
    /\ files = {}
    /\ file_obj = "none"
    /\ file_name_hint = <<>>
    /\ fetched = {}
    /\ tmpdir = <<>>
    /\ in_path = <<>>
    /\ out_wav = <<>>
    /\ exit_status = "none"
    /\ ok = "unset"
    /\ result = Unset
    /\ pending = NoReply
    /\ replies = <<>>
    /\ stages = {}
    /\ failed = {}

Finished == pc \in {"returned", "raised"}

(***************************************************************************)
(* Lines 99-103: the dispatcher of run_polling calls handle_msg with the   *)
(* next update.                                                            *)
(***************************************************************************)
Receive(M) ==
    /\ pc = "idle"
    /\ msg' \in M
    /\ pc' = "intake"
    /\ UNCHANGED <<file_obj, file_name_hint, fetched, tmpdir, in_path, out_wav,
                   dirs, files, exit_status, ok, result, pending, replies, stages,
                   failed>>

(***************************************************************************)
(* The call has ended, by return or by an exception handed to the          *)
(* dispatcher: its locals are gone, the disk stays as the call left it.    *)
(***************************************************************************)
Release ==
    /\ Finished
    /\ pc' = "idle"
    /\ msg' = NoMessage
    /\ file_obj' = "none"
    /\ file_name_hint' = <<>>
    /\ fetched' = {}
    /\ tmpdir' = <<>>
    /\ in_path' = <<>>
    /\ out_wav' = <<>>
    /\ exit_status' = "none"
    /\ ok' = "unset"
    /\ result' = Unset
    /\ pending' = NoReply
    /\ replies' = <<>>
    /\ stages' = {}
    /\ failed' = {}
    /\ UNCHANGED <<dirs, files>>

\* the else branch without its return
NoAttachmentFallsThrough ==
    /\ pending' = UsagePrompt
    /\ pc' = "typing"
    /\ UNCHANGED <<file_obj, file_name_hint, fetched, failed>>

\* lines 48-50: the else branch: the usage prompt is the reply, then return
NoAttachment ==
    /\ pending' = UsagePrompt
    /\ pc' = "reply"
    /\ UNCHANGED <<file_obj, file_name_hint, fetched, failed>>

(***************************************************************************)
(* Lines 28-50: no message, no attachment, or get_file() of the attachment *)
(* the chain picks.                                                        *)
(***************************************************************************)
Intake ==
    /\ pc = "intake"
    /\ IF ~msg.has_message
       THEN /\ pc' = "returned"
            /\ UNCHANGED <<file_obj, file_name_hint, fetched, pending, failed>>
       ELSE IF Selected(msg) = "none"
       THEN NoAttachment
       ELSE /\ fetched' = fetched \cup {Selected(msg)}
            /\ \/ /\ file_obj' = Selected(msg)
                  /\ file_name_hint' = HintOf(msg, Selected(msg))
                  /\ pc' = "typing"
                  /\ UNCHANGED failed
               \/ /\ failed' = failed \cup {"get_file"}
                  /\ pc' = "raised"
                  /\ UNCHANGED <<file_obj, file_name_hint>>
            /\ UNCHANGED pending
    /\ UNCHANGED <<msg, tmpdir, in_path, out_wav, dirs, files, exit_status, ok,
                   result, replies, stages>>

(***************************************************************************)
(* Lines 52-57: the typing indicator, then TemporaryDirectory() and the    *)
(* two paths.                                                              *)
(***************************************************************************)
Typing ==
    /\ pc = "typing"
    /\ \/ /\ failed' = failed \cup {"typing"}
          /\ stages' = stages \cup {"typing"}
          /\ pc' = "raised"
          /\ UNCHANGED <<tmpdir, in_path, out_wav, dirs>>
       \/ \E n \in TmpNames :
            LET d == Append(TempRoot, n)
            IN  /\ d \notin dirs
                /\ dirs' = dirs \cup {d}
                /\ tmpdir' = d
                /\ in_path' = PathJoin(d, file_name_hint)
                /\ out_wav' = PathJoin(d, <<"converted.wav">>)
                /\ stages' = stages \cup {"typing", "tmpdir"}
                /\ pc' = "download"
                /\ UNCHANGED failed
    /\ UNCHANGED <<msg, file_obj, file_name_hint, fetched, files, exit_status, ok,
                   result, pending, replies>>

(***************************************************************************)
(* Leaving the with block of line 54, by return or by an exception:        *)
(* TemporaryDirectory.__exit__ removes the directory and what is in it.    *)
(***************************************************************************)
RemoveTree(fs, d) == {f \in fs : ~Inside(f, d)}

\* removal by a call at the end of the block instead of __exit__
LeaveWithOnReturnOnly(raising) ==
    IF raising THEN [dirs |-> dirs, files |-> files]
    ELSE [dirs |-> dirs \ {tmpdir}, files |-> RemoveTree(files, tmpdir)]

LeaveWith(raising) ==
    [dirs |-> dirs \ {tmpdir}, files |-> RemoveTree(files, tmpdir)]

\* directories a file can be created in
Writable == dirs \cup {Root, TempRoot}

\* the except clause without its return
DownloadFailedFallsThrough ==
    /\ pending' = DownloadError
    /\ pc' = "convert"

\* lines 61-64: the except clause: the download error is the reply, then return
DownloadFailed ==
    /\ pending' = DownloadError
    /\ pc' = "reply"

(***************************************************************************)
(* Lines 59-64: download_to_drive(custom_path=str(in_path)).               *)
(***************************************************************************)
Download ==
    /\ pc = "download"
    /\ stages' = stages \cup {"download"}
    /\ LET target == Resolve(in_path)
       IN  \/ /\ Parent(target) \in Writable
              /\ files' = files \cup {target}
              /\ pc' = "convert"
              /\ UNCHANGED <<failed, pending>>
           \/ /\ failed' = failed \cup {"download"}
              /\ \/ UNCHANGED files
                 \/ /\ Parent(target) \in Writable
                    /\ files' = files \cup {target}
              /\ DownloadFailed
    /\ UNCHANGED <<msg, file_obj, file_name_hint, fetched, tmpdir, in_path, out_wav,
                   dirs, exit_status, ok, result, replies>>

(***************************************************************************)
(* Line 24, convert_to_wav: what it returns when the process was started   *)
(* and waited for (or that raised), ended with status, and the output file *)
(* exists or not.                                                          *)
(***************************************************************************)
\* success read off the exit status of the process
ConvertResultByExitStatus(exception, status, exists) ==
    IF exception THEN FALSE ELSE status = "zero"

ConvertResult(exception, status, exists) ==
    IF exception THEN FALSE ELSE exists

(***************************************************************************)
(* Lines 66-69: ok = await convert_to_wav(in_path, out_wav).               *)
(***************************************************************************)
Convert ==
    /\ pc = "convert"
    /\ stages' = stages \cup {"transcode"}
    /\ \E exception \in BOOLEAN, status \in {"zero", "nonzero"}, wrote \in BOOLEAN :
         LET fs == IF wrote THEN files \cup {Resolve(out_wav)} ELSE files
             r  == ConvertResult(exception, status, Resolve(out_wav) \in fs)
         IN  /\ files' = fs
             /\ exit_status' = IF exception THEN "none" ELSE status
             /\ failed' = IF exception THEN failed \cup {"convert"} ELSE failed
             /\ ok' = IF r THEN "true" ELSE "false"
             /\ IF r THEN /\ pc' = "recognize"
                          /\ UNCHANGED pending
                     ELSE /\ pc' = "reply"
                          /\ pending' = CannotConvert
    /\ UNCHANGED <<msg, file_obj, file_name_hint, fetched, tmpdir, in_path, out_wav,
                   dirs, result, replies>>

(***************************************************************************)
(* Recognition responses: what shazam.recognize_song can hand back.        *)
(***************************************************************************)
Uris == {"http://example/u", "http://example/v"}

Provider(type) == Dict(<< <<"type", Str(type)>> >>)

Youtube(uri) ==
    Dict(<< <<"type", Str("youtube")>>,
            <<"actions", List(<< Dict(<< <<"uri", Str(uri)>> >>) >>)>> >>)

YoutubeWith(actions) == Dict(<< <<"type", Str("youtube")>>, <<"actions", actions>> >>)

Hub(providers) == Dict(<< <<"providers", providers>> >>)

Section(hub) == Dict(<< <<"type", Str("SONG")>>, <<"hub", hub>> >>)

SectionNoHub == Dict(<< <<"type", Str("LYRICS")>> >>)

Track(title, subtitle, sections) ==
    Dict(<< <<"title", title>>, <<"subtitle", subtitle>>, <<"sections", sections>> >>)

Response(track) == Dict(<< <<"matches", List(<<>>)>>, <<"track", track>> >>)

\* sequences over S of length at most n
SeqUpTo(S, n) == UNION { [1..k -> S] : k \in 0..n }

\* responses without a usable track
NoTrackResponses ==
    { None, Str("error"), List(<<>>), Dict(<<>>),
      Dict(<< <<"matches", List(<<>>)>> >>),
      Response(None), Response(Dict(<<>>)), Response(Str("")) }

\* tracks whose fields have the shapes the engine documents
PlainTracks ==
    { Dict(<< <<"title", Str("X")>>, <<"subtitle", Str("Y")>> >>),
      Dict(<< <<"subtitle", Str("Y")>> >>),
      Dict(<< <<"title", None>>, <<"subtitle", Str("")>> >>),
      Track(Str("X"), Str("Y"), List(<<>>)),
      Track(Str("X"), Str("Y"), Str("none")),
      Track(Str("X"), Str("Y"), List(<<SectionNoHub>>)),
      Track(Str("X"), Str("Y"), List(<<Section(Str("hub"))>>)),
      Track(Str("X"), Str("Y"), List(<<Section(Dict(<< <<"type", Str("APPLEMUSIC")>> >>))>>)),
      Track(Str("X"), Str("Y"), List(<<Section(Hub(List(<<Provider("spotify")>>)))>>)),
      Track(Str("X"), Str("Y"), List(<<Section(Hub(List(<<Provider("youtube")>>)))>>)),
      Track(Str("X"), Str("Y"),
            List(<<SectionNoHub,
                   Section(Hub(List(<<Provider("spotify"), Youtube("http://example/u")>>)))>>)) }

\* tracks with a field of another shape
OddTracks ==
    { Str("track"),
      List(<<Str("track")>>),
      Track(Str("X"), Str("Y"), List(<<Str("section")>>)),
      Track(Str("X"), Str("Y"), List(<<Section(Hub(Str("providers")))>>)),
      Track(Str("X"), Str("Y"), List(<<Section(Hub(List(<<Str("youtube")>>)))>>)),
      Track(Str("X"), Str("Y"), List(<<Section(Hub(List(<<YoutubeWith(List(<<>>))>>)))>>)),
      Track(Str("X"), Str("Y"), List(<<Section(Hub(List(<<YoutubeWith(None)>>)))>>)),
      Track(Str("X"), Str("Y"),
            List(<<Section(Hub(List(<<YoutubeWith(List(<<Str("uri")>>))>>)))>>)) }

Responses == NoTrackResponses \cup { Response(t) : t \in PlainTracks \cup OddTracks }

\* the sections a link is looked for in, every combination up to the bounds
ScanProviderKinds == {Provider("spotify")} \cup { Youtube(u) : u \in Uris }

ScanSectionKinds ==
    {SectionNoHub} \cup
    { Section(Hub(List(ps))) : ps \in SeqUpTo(ScanProviderKinds, MaxProviders) }

ScanResponses ==
    { Response(Track(Str("X"), Str("Y"), List(ss))) :
        ss \in SeqUpTo(ScanSectionKinds, MaxSections) }

\* the message of a request whose response is looked at: one voice clip
VoiceMessages ==
    { [has_message |-> TRUE, fields |-> {"voice"}, audio_name |-> <<>>,
       document_name |-> <<>>] }

(***************************************************************************)
(* Line 26, recognize_with_shazam: the except clause around recognize_song *)
(***************************************************************************)
\* recognize_song outside of the try block
OnEngineErrorPropagates == [raised |-> TRUE, result |-> Dict(<<>>)]

OnEngineError == [raised |-> FALSE, result |-> Dict(<<>>)]

(***************************************************************************)
(* Lines 71-91: result = await recognize_with_shazam(out_wav), then the    *)
(* formatting of the reply, up to the reply_text call.  The response is    *)
(* drawn from R.                                                           *)
(***************************************************************************)
Formatted(res) ==
    LET fmt == FormatReply(res)
    IN  /\ result' = res
        /\ IF fmt.raised
           THEN /\ failed' = failed \cup {"format"}
                /\ pc' = "raised"
                /\ dirs' = LeaveWith(TRUE).dirs
                /\ files' = LeaveWith(TRUE).files
                /\ UNCHANGED pending
           ELSE /\ pending' = fmt.reply
                /\ pc' = "reply"
                /\ UNCHANGED <<failed, dirs, files>>

Recognize(R) ==
    /\ pc = "recognize"
    /\ \/ /\ failed' = failed \cup {"read"}
          /\ stages' = stages \cup {"recognize"}
          /\ pc' = "raised"
          /\ dirs' = LeaveWith(TRUE).dirs
          /\ files' = LeaveWith(TRUE).files
          /\ UNCHANGED <<result, pending>>
       \/ /\ Resolve(out_wav) \in files
          /\ stages' = stages \cup {"recognize", "format"}
          /\ \E res \in R : Formatted(res)
       \/ /\ Resolve(out_wav) \in files
          /\ IF OnEngineError.raised
             THEN /\ failed' = failed \cup {"engine"}
                  /\ stages' = stages \cup {"recognize"}
                  /\ pc' = "raised"
                  /\ dirs' = LeaveWith(TRUE).dirs
                  /\ files' = LeaveWith(TRUE).files
                  /\ UNCHANGED <<result, pending>>
             ELSE /\ stages' = stages \cup {"recognize", "format"}
                  /\ LET fmt == FormatReply(OnEngineError.result)
                     IN  /\ result' = OnEngineError.result
                         /\ failed' = IF fmt.raised THEN failed \cup {"engine", "format"}
                                      ELSE failed \cup {"engine"}
                         /\ IF fmt.raised
                            THEN /\ pc' = "raised"
                                 /\ dirs' = LeaveWith(TRUE).dirs
                                 /\ files' = LeaveWith(TRUE).files
                                 /\ UNCHANGED pending
                            ELSE /\ pending' = fmt.reply
                                 /\ pc' = "reply"
                                 /\ UNCHANGED <<dirs, files>>
    /\ UNCHANGED <<msg, file_obj, file_name_hint, fetched, tmpdir, in_path, out_wav,
                   exit_status, ok, replies>>

(***************************************************************************)
(* Lines 49-50, 62-64, 68-69, 92, 94: msg.reply_text(pending), after which *)
(* the handler returns, or the call raises; either way the with block, if  *)
(* entered, is left.                                                       *)
(***************************************************************************)
Reply ==
    /\ pc = "reply"
    /\ replies' = Append(replies, pending)
    /\ \E raising \in BOOLEAN :
         /\ failed' = IF raising THEN failed \cup {"reply"} ELSE failed
         /\ pc' = IF raising THEN "raised" ELSE "returned"
         /\ IF tmpdir # <<>>
            THEN /\ dirs' = LeaveWith(raising).dirs
                 /\ files' = LeaveWith(raising).files
            ELSE UNCHANGED <<dirs, files>>
    /\ UNCHANGED <<msg, file_obj, file_name_hint, fetched, tmpdir, in_path, out_wav,
                   exit_status, ok, result, pending, stages>>

(***************************************************************************)
(* The bot serving every kind of message.                                  *)
(***************************************************************************)
Next ==
    \/ Receive(Messages)
    \/ Release
    \/ Intake
    \/ Typing
    \/ Download
    \/ Convert
    \/ Recognize(Responses)
    \/ Reply

Spec == Init /\ [][Next]_vars

(***************************************************************************)
(* The bot serving voice clips, with every response whose sections hold    *)
(* up to MaxSections hubs of up to MaxProviders providers.                 *)
(***************************************************************************)
NextScan ==
    \/ Receive(VoiceMessages)
    \/ Release
    \/ Intake
    \/ Typing
    \/ Download
    \/ Convert
    \/ Recognize(ScanResponses)
    \/ Reply

SpecScan == Init /\ [][NextScan]_vars

(***************************************************************************)
(* Properties.                                                             *)
(***************************************************************************)
Started == pc \notin {"idle", "intake"}

\* the priority order the attachment kinds are documented to have
Priority == <<"voice", "audio", "video", "document", "video_note">>

Rank(kind) == CHOOSE i \in 1..Len(Priority) : Priority[i] = kind

FirstPopulated(fields) == CHOOSE k \in fields : \A j \in fields : Rank(k) <= Rank(j)

\* C1: whatever attachment fields of the message are populated, get_file() is
\* called on exactly one attachment, the populated one that comes first in the
\* order voice > audio > video > document > video-note, and no other attachment
\* is fetched or processed in the request.
C1_OneAttachmentByPriority ==
    /\ ~Started => fetched = {} /\ file_obj = "none"
    /\ Started /\ msg.has_message /\ msg.fields # {} =>
         /\ fetched = {FirstPopulated(msg.fields)}
         /\ file_obj \in {"none", FirstPopulated(msg.fields)}
         /\ "get_file" \notin failed => file_obj = FirstPopulated(msg.fields)

C1_Witness ==
    /\ pc = "returned"
    /\ msg.fields = {"audio", "document", "video_note"}
    /\ fetched = {"audio"}
    /\ file_obj = "audio"
    /\ Len(replies) = 1

\* C2: when the download raises, the request sends the fixed download-error
\* reply and ends: neither the transcode nor the recognition stage runs and no
\* other reply is sent.
C2_DownloadFailureEndsRequest ==
    "download" \in failed =>
        /\ pc \in {"reply", "returned", "raised"}
        /\ stages \cap {"transcode", "recognize", "format"} = {}
        /\ pending = DownloadError
        /\ pc = "reply" => replies = <<>>
        /\ Finished => replies = <<DownloadError>>

C2_Witness ==
    /\ pc = "returned"
    /\ "download" \in failed
    /\ replies = <<DownloadError>>
    /\ stages = {"typing", "tmpdir", "download"}

\* C3: the transcode counts as successful exactly when the conversion was
\* invoked without an exception and the output waveform file exists afterwards,
\* whatever the exit status of the process; on failure the request sends the
\* fixed cannot-convert reply and ends without running the recognition stage.
C3_TranscodeSuccessIsOutputFile ==
    /\ ok # "unset" /\ pc \in {"recognize", "reply"} =>
         (ok = "true" <=> ("convert" \notin failed /\ Resolve(out_wav) \in files))
    /\ ok = "false" =>
         /\ pc \in {"reply", "returned", "raised"}
         /\ stages \cap {"recognize", "format"} = {}
         /\ pending = CannotConvert
         /\ Finished => replies = <<CannotConvert>>
    /\ ok = "true" /\ Finished => CannotConvert \notin {replies[i] : i \in 1..Len(replies)}

C3_Witness ==
    /\ pc = "recognize"
    /\ ok = "true"
    /\ exit_status = "nonzero"
    /\ Resolve(out_wav) \in files

\* C4: when a request that created a temporary directory has finished, by a
\* reply, a failed download, a failed transcode, no match or an exception in
\* the middle of the pipeline, that directory and the files in it are gone.
C4_TempDirRemoved ==
    Finished /\ tmpdir # <<>> =>
        /\ tmpdir \notin dirs
        /\ \A f \in files : ~Inside(f, tmpdir)

C4_Witness ==
    /\ pc = "raised"
    /\ "format" \in failed
    /\ tmpdir # <<>>
    /\ tmpdir \notin dirs
    /\ "transcode" \in stages

\* C5: every request that carries a message ends with exactly one text reply
\* sent and no exception escaping handle_msg, whichever stage failed.
C5_EveryFailureBecomesAReply ==
    Finished /\ msg.has_message => pc = "returned" /\ Len(replies) = 1

\* a response without a usable track: absent or no dict, no "track" key, or a
\* "track" that is null
NoUsableTrack(res) ==
    \/ res.t # "dict"
    \/ \A i \in 1..Len(res.kv) : res.kv[i][1] # "track"
    \/ \E i \in 1..Len(res.kv) : res.kv[i][1] = "track" /\ res.kv[i][2] = None

\* C6: after a successful download and transcode, an exception of the
\* recognition engine, an empty response, a response that is absent or no dict,
\* a dict without "track" and a dict with a null "track" all produce the same
\* fixed could-not-identify reply, and nothing else.
C6_NoTrackIsNoMatch ==
    /\ ok = "true"
    /\ pc \in {"reply", "returned", "raised"}
    /\ "read" \notin failed
    /\ "engine" \in failed \/ NoUsableTrack(result)
    => /\ pending = NoMatch
       /\ "format" \notin failed
       /\ pc = "reply" => replies = <<>>
       /\ Finished => replies = <<NoMatch>>

C6_Witness ==
    /\ pc = "returned"
    /\ "engine" \in failed
    /\ result = Dict(<<>>)
    /\ replies = <<NoMatch>>

\* C7: a message with none of the five attachment fields set gets the fixed
\* usage prompt and the request ends: no typing indicator, no temporary
\* directory, no download, transcode or recognition stage.
C7_NoAttachmentOnlyPrompts ==
    Started /\ msg.has_message /\ msg.fields = {} =>
        /\ pc \in {"reply", "returned", "raised"}
        /\ stages = {}
        /\ fetched = {}
        /\ tmpdir = <<>>
        /\ dirs = {}
        /\ pending = UsagePrompt
        /\ pc = "reply" => replies = <<>>
        /\ Finished => replies = <<UsagePrompt>>

C7_Witness ==
    /\ pc = "returned"
    /\ msg.has_message
    /\ msg.fields = {}
    /\ replies = <<UsagePrompt>>

\* C8: formatting never fails: every request whose recognition response has a
\* "track" present, whatever its shape, ends having sent a text reply.
C8_FormattingAlwaysReplies ==
    Finished /\ IsDict(result) /\ Truthy(TrackOf(result)) => Len(replies) = 1

\* the providers of one section's hub, in list order
ProvidersOfSection(sec) ==
    LET hub == Get(sec, "hub", None)
    IN  IF IsDict(hub) /\ IsList(Get(hub, "providers", None))
        THEN Get(hub, "providers", None).items
        ELSE <<>>

RECURSIVE AllProviders(_)
\* the providers of all sections, sections in list order
AllProviders(secs) ==
    IF secs = <<>> THEN <<>>
    ELSE ProvidersOfSection(Head(secs)) \o AllProviders(Tail(secs))

\* the link line of the first youtube provider of the track, if there is one
ExpectedLink(res) ==
    LET all == AllProviders(Get(TrackOf(res), "sections", List(<<>>)).items)
        yt  == {i \in 1..Len(all) : Get(all[i], "type", None).s = "youtube"}
    IN  IF yt = {} THEN <<>>
        ELSE LET p == all[CHOOSE i \in yt : \A j \in yt : i <= j]
             IN  <<Get(Get(p, "actions", None).items[1], "uri", None).s>>

\* C9: the reply for a matched track holds at most one link, the first action
\* URI of the first youtube provider met when the sections are scanned in list
\* order and the providers of each hub in list order; without a youtube
\* provider it holds title and artist and no link.
C9_FirstYoutubeLinkWins ==
    pc \in {"reply", "returned", "raised"} /\ pending.kind = "match" =>
        /\ Len(pending.more) <= 1
        /\ pending.more = ExpectedLink(result)
        /\ pending.title = "X" /\ pending.subtitle = "Y"
        /\ Finished => replies = <<pending>>

C9_Witness ==
    /\ pc = "returned"
    /\ result = Response(Track(Str("X"), Str("Y"),
                   List(<< Section(Hub(List(<<Provider("spotify"), Youtube("http://example/u")>>))),
                           Section(Hub(List(<<Youtube("http://example/v")>>))) >>)))
    /\ replies = <<MatchReply("X", "Y", <<"http://example/u">>)>>

\* C10: in every request that reaches the download, for every file name hint,
\* the raw input file and the converted waveform file are two distinct paths
\* inside the request's own temporary directory, which holds no other file.
C10_PathsDistinctInsideTempDir ==
    pc \in {"download", "convert", "recognize"} =>
        /\ Resolve(in_path) # Resolve(out_wav)
        /\ Inside(Resolve(in_path), tmpdir)
        /\ Inside(Resolve(out_wav), tmpdir)
        /\ \A f \in files : Inside(f, tmpdir) => f \in {Resolve(in_path), Resolve(out_wav)}

====
